---- MODULE Spec2Model ----
(***************************************************************************)
(* State-machine model of examples/graph_prediction/ogbg-mol-esol_mincut.py *)
(* The script is straight-line code over three libraries.  The script's own *)
(* statements (order, arguments, absence of try/except) are modelled from   *)
(* the file.  The libraries are modelled by their call contracts:           *)
(*   - tf.keras Model.fit / Model.predict / EarlyStopping (TF 2.x, the only *)
(*     line that accepts Adam(lr=...)): fit runs `epochs` epochs of         *)
(*     `steps_per_epoch` training batches and `validation_steps` validation *)
(*     batches, calls the callback at the end of every epoch and leaves the *)
(*     loop when stop_training is set; predict reads its input until it is  *)
(*     exhausted;                                                           *)
(*   - spektral.data.BatchLoader: an iterator of batches over one dataset,  *)
(*     endless unless an epoch count is given.  How a batch is composed     *)
(*     (its size, the order of its graphs) is not modelled.                 *)
(***************************************************************************)
EXTENDS Integers, Sequences, FiniteSets, TLC

VARIABLES pc, params, n, opt_lr, loaders, fit_args, epoch, step, cb,
          weights, predict_args, y_pred, y_true, score, out, err, hist,
          val_best, reads, fit_batches

vars == <<pc, params, n, opt_lr, loaders, fit_args, epoch, step, cb,
          weights, predict_args, y_pred, y_true, score, out, err, hist,
          val_best, reads, fit_batches>>

(***************************** bounds **************************************)
MaxTr == 65
MaxVa == 33
MaxTe == 33
MaxLoss == 1

(************************* PARAMETERS (lines 22-24) ************************)
\* learning_rate = 1e-3, in units of 1e-6
learning_rate == 1000
epochs == 10
batch_size == 32

\* EarlyStopping(patience=10, restore_best_weights=True), line 74
patienceHalved == epochs \div 2
patience == 10
restore_best_weights == TRUE

Splits == {"tr", "va", "te"}

(************************ the script's statements **************************)
\* One entry per statement (group) of the script, in file order.
StmtOrderFitSkipped ==
    <<"load", "split", "build", "compile", "summary",
      "testing", "evaluator", "loader_te", "predict", "y_true", "eval",
      "print", "done", "loaders", "fit">>
StmtOrderSummaryLate ==
    <<"load", "split", "build", "compile", "loaders", "fit", "summary",
      "testing", "evaluator", "loader_te", "predict", "y_true", "eval",
      "print", "done">>
StmtOrder ==
    <<"load", "split", "build", "compile", "summary", "loaders", "fit",
      "testing", "evaluator", "loader_te", "predict", "y_true", "eval",
      "print", "done">>

Stmts == {StmtOrder[i] : i \in 1..Len(StmtOrder)}

\* positions inside model.fit
FitPcs == {"train", "validate", "epoch_end"}

IndexOf(p) == CHOOSE i \in 1..Len(StmtOrder) : StmtOrder[i] = p

\* The statement executed after p returns: the next one in the file.
NextStmt(p) ==
    IF IndexOf(p) < Len(StmtOrder) THEN StmtOrder[IndexOf(p) + 1] ELSE "done"

\* The four sections of the file: 1 LOAD DATA, 2 BUILD MODEL, 3 FIT MODEL,
\* 4 EVALUATE MODEL.
StageOf(p) ==
    CASE p \in {"load", "split"} -> 1
      [] p \in {"build", "compile", "summary"} -> 2
      [] p \in {"loaders", "fit"} \cup FitPcs -> 3
      [] p \in {"testing", "evaluator", "loader_te", "predict",
                "y_true", "eval", "print"} -> 4
      [] OTHER -> 5

\* The statements that call into a library and may raise.
Raising == (Stmts \ {"testing", "print", "done"}) \cup FitPcs

\* The script has no try/except: an exception ends the run.
OnRaiseRetry(p) == IF p \in FitPcs THEN "fit" ELSE p
OnRaise(p) == "error"

(**************************** bookkeeping **********************************)
\* hist counts, per statement, how often it was begun, and per section how
\* often it was begun and left.
HistInit ==
    [attempts  |-> [s \in Stmts |-> IF s = "load" THEN 1 ELSE 0],
     started   |-> [i \in 1..4 |-> IF i = 1 THEN 1 ELSE 0],
     completed |-> [i \in 1..4 |-> 0]]

Bump(f, k) == [f EXCEPT ![k] = @ + 1]

\* Control passes from p to q.
Goto(h, p, q) ==
    LET a == IF q \in Stmts \ {"done"} THEN Bump(h.attempts, q) ELSE h.attempts
        leave == StageOf(p) # StageOf(q) /\ q # "error"
        enter == StageOf(p) # StageOf(q) /\ StageOf(q) \in 1..4
    IN [attempts  |-> a,
        started   |-> IF enter THEN Bump(h.started, StageOf(q)) ELSE h.started,
        completed |-> IF leave THEN Bump(h.completed, StageOf(p)) ELSE h.completed]

(****************************** losses *************************************)
Inf == MaxLoss + 1
NaN == [nan |-> TRUE, v |-> 0]
Num(x) == [nan |-> FALSE, v |-> x]
Losses == {NaN} \cup {Num(x) : x \in 0..Inf}

\* np.less: false whenever an operand is NaN
Less(a, b) == ~a.nan /\ ~b.nan /\ a.v < b.v

(***************************** BatchLoader *********************************)
\* BatchLoader(dataset, batch_size=..., epochs=...): epochs is {} for None.
MakeLoader(ds, bs, ep) ==
    [dataset |-> ds, batch_size |-> bs, epochs |-> ep, pos |-> 0, pass |-> 0]

\* number of batches of one pass over the loader's dataset
steps_per_epoch(l) == (n[l.dataset] + l.batch_size - 1) \div l.batch_size

\* The generator is finished once the requested number of passes is made.
Exhausted(l) == l.epochs # {} /\ \A e \in l.epochs : l.pass >= e

\* next(loader): one more batch of the current pass; passes are counted
\* only against a limit.
NextBatch(l) ==
    IF l.pos + 1 >= steps_per_epoch(l)
    THEN [l EXCEPT !.pos = 0,
                   !.pass = IF l.epochs = {} THEN 0 ELSE @ + 1]
    ELSE [l EXCEPT !.pos = @ + 1]

(*********************** arguments at the call sites ***********************)
LoaderTrDataset == "tr"
LoaderVaDatasetTe == "te"
LoaderVaDataset == "va"
LoaderTeDataset == "te"
LoaderTeEpochsNone == {}
LoaderTeEpochs == {1}
LoaderTeBatchSizeOther == params.batch_size * 2
LoaderTeBatchSize == params.batch_size
YTrueDataset == "te"

(***************************** EarlyStopping *******************************)
CbInit ==
    [wait |-> 0, best |-> Num(Inf), best_weights |-> {},
     stopped_epoch |-> 0, stop_training |-> FALSE]

\* on_epoch_end(epoch, logs) with logs['val_loss'] = current and the model
\* holding weights w.  Returns the callback and the model's weights.
OnEpochEnd(c, e, current, w) ==
    LET bw == IF restore_best_weights /\ c.best_weights = {}
              THEN {w} ELSE c.best_weights
    IN IF Less(current, c.best)
       THEN [cb |-> [c EXCEPT !.best = current, !.wait = 0,
                              !.best_weights =
                                 IF restore_best_weights THEN {w} ELSE bw],
             weights |-> w]
       ELSE IF c.wait + 1 >= patience /\ e > 0
            THEN [cb |-> [c EXCEPT !.wait = @ + 1, !.best_weights = bw,
                                   !.stopped_epoch = e,
                                   !.stop_training = TRUE],
                  weights |-> IF restore_best_weights
                              THEN CHOOSE x \in bw : TRUE ELSE w]
            ELSE [cb |-> [c EXCEPT !.wait = @ + 1, !.best_weights = bw],
                  weights |-> w]

\* lowest validation loss seen so far and the epochs (1-based) that had it
ValBestInit == [seen |-> FALSE, min |-> 0, at |-> {}]
ValBest(vb, current, e) ==
    IF current.nan THEN vb
    ELSE IF ~vb.seen \/ current.v < vb.min
         THEN [seen |-> TRUE, min |-> current.v, at |-> {e}]
         ELSE IF current.v = vb.min THEN [vb EXCEPT !.at = @ \cup {e}]
              ELSE vb

(******************************* Init **************************************)
Init ==
    /\ pc = "load"
    /\ params = [learning_rate |-> learning_rate, epochs |-> epochs,
                 batch_size |-> batch_size]
    /\ n = [s \in Splits |-> 0]
    /\ opt_lr = {}
    /\ loaders = [s \in Splits |-> {}]
    /\ fit_args = {}
    /\ epoch = 0
    /\ step = 0
    /\ cb = CbInit
    /\ weights = 0
    /\ predict_args = {}
    /\ y_pred = {}
    /\ y_true = {}
    /\ score = {}
    /\ out = << >>
    /\ err = {}
    /\ hist = HistInit
    /\ val_best = ValBestInit
    /\ reads = [update |-> {}, metric |-> {}, predict |-> {}, early |-> {}]
    /\ fit_batches = [tr |-> 0, va |-> 0]

\* p returns and the next statement begins
Step(p) ==
    /\ pc = p
    /\ pc' = NextStmt(p)
    /\ hist' = Goto(hist, p, NextStmt(p))

(************************** LOAD DATA (29-44) ******************************)
LoadData ==
    /\ Step("load")
    /\ UNCHANGED <<params, n, opt_lr, loaders, fit_args, epoch, step, cb,
                   weights, predict_args, y_pred, y_true, score, out, err,
                   val_best, reads, fit_batches>>

SplitData ==
    /\ Step("split")
    /\ \E tr \in {batch_size, MaxTr}, va \in {1, MaxVa}, te \in {batch_size, MaxTe} :
          n' = [s \in Splits |-> CASE s = "tr" -> tr [] s = "va" -> va [] OTHER -> te]
    /\ UNCHANGED <<params, opt_lr, loaders, fit_args, epoch, step, cb,
                   weights, predict_args, y_pred, y_true, score, out, err,
                   val_best, reads, fit_batches>>

(************************** BUILD MODEL (49-62) ****************************)
BuildModel ==
    /\ Step("build")
    /\ UNCHANGED <<params, n, opt_lr, loaders, fit_args, epoch, step, cb,
                   weights, predict_args, y_pred, y_true, score, out, err,
                   val_best, reads, fit_batches>>

Compile ==
    /\ Step("compile")
    /\ opt_lr' = {params.learning_rate}
    /\ UNCHANGED <<params, n, loaders, fit_args, epoch, step, cb,
                   weights, predict_args, y_pred, y_true, score, out, err,
                   val_best, reads, fit_batches>>

Summary ==
    /\ Step("summary")
    /\ out' = Append(out, "summary")
    /\ UNCHANGED <<params, n, opt_lr, loaders, fit_args, epoch, step, cb,
                   weights, predict_args, y_pred, y_true, score, err,
                   val_best, reads, fit_batches>>

(*************************** FIT MODEL (67-74) *****************************)
MakeLoaders ==
    /\ Step("loaders")
    /\ loaders' = [loaders EXCEPT
                     !["tr"] = {MakeLoader(LoaderTrDataset, params.batch_size, {})},
                     !["va"] = {MakeLoader(LoaderVaDataset, params.batch_size, {})}]
    /\ UNCHANGED <<params, n, opt_lr, fit_args, epoch, step, cb,
                   weights, predict_args, y_pred, y_true, score, out, err,
                   val_best, reads, fit_batches>>

\* model.fit is called: its arguments are evaluated, on_train_begin runs
FitBegin ==
    /\ pc = "fit"
    /\ \E ltr \in loaders["tr"], lva \in loaders["va"] :
          fit_args' = {[steps_per_epoch  |-> steps_per_epoch(ltr),
                        epochs           |-> params.epochs,
                        validation_steps |-> steps_per_epoch(lva)]}
    /\ cb' = CbInit
    /\ epoch' = 0
    /\ step' = 0
    /\ pc' = "train"
    /\ hist' = Goto(hist, "fit", "train")
    /\ UNCHANGED <<params, n, opt_lr, loaders, weights, predict_args,
                   y_pred, y_true, score, out, err, val_best, reads,
                   fit_batches>>

\* one training batch: a parameter update
TrainStep ==
    /\ pc = "train"
    /\ \E l \in loaders["tr"], a \in fit_args :
          /\ ~Exhausted(l)
          /\ loaders' = [loaders EXCEPT !["tr"] = {NextBatch(l)}]
          /\ reads' = [reads EXCEPT !.update = @ \cup {l.dataset},
                                    !.early = @ \cup {l.dataset}]
          /\ weights' = epoch + 1
          /\ fit_batches' = [fit_batches EXCEPT !.tr = @ + 1]
          /\ IF step + 1 >= a.steps_per_epoch
             THEN /\ step' = 0
                  /\ pc' = "validate"
             ELSE /\ step' = step + 1
                  /\ pc' = "train"
    /\ UNCHANGED <<params, n, opt_lr, fit_args, epoch, cb, predict_args,
                   y_pred, y_true, score, out, err, hist, val_best>>

\* one validation batch: contributes to val_loss
ValStep ==
    /\ pc = "validate"
    /\ \E l \in loaders["va"], a \in fit_args :
          /\ ~Exhausted(l)
          /\ loaders' = [loaders EXCEPT !["va"] = {NextBatch(l)}]
          /\ reads' = [reads EXCEPT !.metric = @ \cup {l.dataset},
                                    !.early = @ \cup {l.dataset}]
          /\ fit_batches' = [fit_batches EXCEPT !.va = @ + 1]
          /\ IF step + 1 >= a.validation_steps
             THEN /\ step' = 0
                  /\ pc' = "epoch_end"
             ELSE /\ step' = step + 1
                  /\ pc' = "validate"
    /\ UNCHANGED <<params, n, opt_lr, fit_args, epoch, cb, weights,
                   predict_args, y_pred, y_true, score, out, err, hist,
                   val_best>>

\* end of an epoch: the callback sees val_loss; fit returns after the last
\* epoch or when the callback asked to stop
EpochEnd ==
    /\ pc = "epoch_end"
    /\ \E current \in Losses, a \in fit_args :
          LET r == OnEpochEnd(cb, epoch, current, weights)
              q == IF r.cb.stop_training \/ epoch + 1 >= a.epochs
                   THEN NextStmt("fit") ELSE "train"
          IN /\ cb' = r.cb
             /\ weights' = r.weights
             /\ val_best' = ValBest(val_best, current, epoch + 1)
             /\ epoch' = epoch + 1
             /\ pc' = q
             /\ hist' = Goto(hist, "epoch_end", q)
    /\ UNCHANGED <<params, n, opt_lr, loaders, fit_args, step, predict_args,
                   y_pred, y_true, score, out, err, reads, fit_batches>>

(************************ EVALUATE MODEL (79-85) ***************************)
PrintTesting ==
    /\ Step("testing")
    /\ out' = Append(out, "Testing model")
    /\ UNCHANGED <<params, n, opt_lr, loaders, fit_args, epoch, step, cb,
                   weights, predict_args, y_pred, y_true, score, err,
                   val_best, reads, fit_batches>>

MakeEvaluator ==
    /\ Step("evaluator")
    /\ UNCHANGED <<params, n, opt_lr, loaders, fit_args, epoch, step, cb,
                   weights, predict_args, y_pred, y_true, score, out, err,
                   val_best, reads, fit_batches>>

MakeLoaderTe ==
    /\ Step("loader_te")
    /\ loaders' = [loaders EXCEPT
                     !["te"] = {MakeLoader(LoaderTeDataset, LoaderTeBatchSize,
                                           LoaderTeEpochs)}]
    /\ UNCHANGED <<params, n, opt_lr, fit_args, epoch, step, cb,
                   weights, predict_args, y_pred, y_true, score, out, err,
                   val_best, reads, fit_batches>>

\* model.predict reads one more batch of its input
PredictBatch ==
    /\ pc = "predict"
    /\ \E l \in loaders["te"] :
          /\ ~Exhausted(l)
          /\ loaders' = [loaders EXCEPT !["te"] = {NextBatch(l)}]
          /\ reads' = [reads EXCEPT
                         !.predict = @ \cup {l.dataset},
                         !.early = IF hist.completed[3] = 0
                                   THEN @ \cup {l.dataset} ELSE @]
    /\ predict_args' = {[batch_size |-> params.batch_size, weights |-> weights]}
    /\ UNCHANGED <<pc, params, n, opt_lr, fit_args, epoch, step, cb, weights,
                   y_pred, y_true, score, out, err, hist, val_best,
                   fit_batches>>

\* the input is exhausted: model.predict returns y_pred
PredictReturn ==
    /\ Step("predict")
    /\ \A l \in loaders["te"] : Exhausted(l)
    /\ predict_args' = {[batch_size |-> params.batch_size, weights |-> weights]}
    /\ y_pred' = {[from |-> reads.predict, weights |-> weights]}
    /\ UNCHANGED <<params, n, opt_lr, loaders, fit_args, epoch, step, cb,
                   weights, y_true, score, out, err, val_best, reads,
                   fit_batches>>

YTrue ==
    /\ Step("y_true")
    /\ y_true' = {[from |-> {YTrueDataset}]}
    /\ UNCHANGED <<params, n, opt_lr, loaders, fit_args, epoch, step, cb,
                   weights, predict_args, y_pred, score, out, err,
                   val_best, reads, fit_batches>>

Eval ==
    /\ Step("eval")
    /\ \E yt \in y_true, yp \in y_pred :
          score' = {[y_true |-> yt.from, y_pred |-> yp.from]}
    /\ UNCHANGED <<params, n, opt_lr, loaders, fit_args, epoch, step, cb,
                   weights, predict_args, y_pred, y_true, out, err,
                   val_best, reads, fit_batches>>

PrintDone ==
    /\ Step("print")
    /\ score # {}
    /\ out' = Append(out, "Done. RMSE")
    /\ UNCHANGED <<params, n, opt_lr, loaders, fit_args, epoch, step, cb,
                   weights, predict_args, y_pred, y_true, score, err,
                   val_best, reads, fit_batches>>

(****************************** failures ***********************************)
\* A library call raises at statement pc.
Raise ==
    /\ pc \in Raising
    /\ err = {}
    /\ err' = {IF pc \in FitPcs THEN "fit" ELSE pc}
    /\ pc' = OnRaise(pc)
    /\ hist' = Goto(hist, pc, OnRaise(pc))
    /\ UNCHANGED <<params, n, opt_lr, loaders, fit_args, epoch, step, cb,
                   weights, predict_args, y_pred, y_true, score, out,
                   val_best, reads, fit_batches>>

NextNoRaise ==
    \/ LoadData \/ SplitData \/ BuildModel \/ Compile \/ Summary
    \/ MakeLoaders \/ FitBegin \/ TrainStep \/ ValStep \/ EpochEnd
    \/ PrintTesting \/ MakeEvaluator \/ MakeLoaderTe
    \/ PredictBatch \/ PredictReturn \/ YTrue \/ Eval \/ PrintDone

Next == NextNoRaise \/ Raise

Spec == Init /\ [][Next]_vars

\* Runs in which no library call raises.  The interpreter always executes
\* the next statement, hence weak fairness of the step relation.
SpecNoRaise == Init /\ [][NextNoRaise]_vars /\ WF_vars(NextNoRaise)

(***************************************************************************)
(*                              Properties                                 *)
(***************************************************************************)
Count(seq, x) == Cardinality({i \in DOMAIN seq : seq[i] = x})
Printed(x) == \E i \in DOMAIN out : out[i] = x
FitReturned == hist.completed[3] = 1

\* C1: the run is load -> build -> fit -> evaluate: every section and every
\* statement is begun at most once, a section is begun only when all earlier
\* sections have been left, none is skipped, and model.predict is called
\* only after model.fit has returned.
C1_LinearWorkflow ==
    /\ \A i \in 1..4 : hist.started[i] <= 1 /\ hist.completed[i] <= hist.started[i]
    /\ \A i \in 2..4 : hist.started[i] = 1 => \A j \in 1..(i - 1) : hist.completed[j] = 1
    /\ \A s \in Stmts : hist.attempts[s] <= 1
    /\ StageOf(pc) \in 1..4 => hist.started[StageOf(pc)] = 1 /\ hist.completed[StageOf(pc)] = 0
    /\ (hist.attempts["predict"] > 0 \/ predict_args # {})
          => FitReturned /\ fit_args # {} /\ epoch >= 1

C1_Witness ==
    /\ pc = "done"
    /\ \A i \in 1..4 : hist.started[i] = 1 /\ hist.completed[i] = 1
    /\ predict_args # {}

\* C2: model.summary() is printed at most once (exactly once in a run that
\* gets that far), after compile and before any training step; the line
\* 'Done. RMSE' is printed at most once (exactly once in a completed run), it
\* is the last action of the run, follows evaluator.eval and the summary.
C2_Outputs ==
    /\ Count(out, "summary") <= 1
    /\ Count(out, "Done. RMSE") <= 1
    /\ Printed("summary") => opt_lr # {}
    /\ (fit_args # {} \/ fit_batches.tr > 0 \/ weights # 0) => Printed("summary")
    /\ Printed("Done. RMSE") =>
          /\ pc = "done"
          /\ out[Len(out)] = "Done. RMSE"
          /\ score # {}
          /\ \E i \in 1..(Len(out) - 1) : out[i] = "summary"
    /\ pc = "done" => Count(out, "summary") = 1 /\ Count(out, "Done. RMSE") = 1

C2_Witness ==
    /\ pc = "done"
    /\ out = <<"summary", "Testing model", "Done. RMSE">>

\* C3: when no library call raises, every run reaches the final print; fit
\* takes steps_per_epoch training batches per epoch for at most `epochs`
\* epochs from the endless loaders, and predict ends because the test
\* loader makes exactly one pass.
C3_Terminates ==
    /\ <>(pc = "done")
    /\ [](\A a \in fit_args :
             /\ epoch <= a.epochs
             /\ fit_batches.tr <= a.epochs * a.steps_per_epoch
             /\ fit_batches.va <= a.epochs * a.validation_steps
             /\ FitReturned => fit_batches.tr = epoch * a.steps_per_epoch)
    /\ [](\A l \in loaders["te"] : l.pass <= 1 /\ (pc = "done" => Exhausted(l)))

C3_Witness ==
    /\ pc = "done"
    /\ Printed("Done. RMSE")
    /\ \E l \in loaders["te"] : Exhausted(l) /\ steps_per_epoch(l) > 1
    /\ \E a \in fit_args : fit_batches.tr = a.epochs * a.steps_per_epoch
                           /\ a.steps_per_epoch > 1

\* C4: a failing library call ends the run in the error state at that
\* statement: the call is not made again, no later statement or section is
\* begun, nothing more happens, and 'Done. RMSE' is not printed.
C4_FailStop ==
    /\ pc = "error" <=> err # {}
    /\ \A e \in err :
          /\ hist.attempts[e] = 1
          /\ \A s \in Stmts : IndexOf(s) > IndexOf(e) => hist.attempts[s] = 0
          /\ \A i \in 1..4 : i > StageOf(e) => hist.started[i] = 0
          /\ hist.completed[StageOf(e)] = 0
          /\ ~Printed("Done. RMSE")
          /\ score = {}
    /\ pc = "error" => ~ENABLED Next

C4_Witness ==
    /\ pc = "error"
    /\ err = {"fit"}
    /\ epoch >= 1
    /\ Printed("summary")

\* C5: learning_rate, epochs and batch_size keep their initial values for
\* the whole run, and every use sees them: Adam gets learning_rate, fit
\* gets epochs, the three loaders and predict get batch_size.
C5_Config ==
    /\ params = [learning_rate |-> learning_rate, epochs |-> epochs,
                 batch_size |-> batch_size]
    /\ DOMAIN params = {"learning_rate", "epochs", "batch_size"}
    /\ opt_lr \subseteq {learning_rate}
    /\ \A a \in fit_args : a.epochs = epochs
    /\ \A s \in Splits : \A l \in loaders[s] : l.batch_size = batch_size
    /\ \A p \in predict_args : p.batch_size = batch_size

C5_Witness ==
    /\ pc = "done"
    /\ opt_lr = {learning_rate}
    /\ \A s \in Splits : \E l \in loaders[s] : l.batch_size = batch_size
    /\ \E p \in predict_args : p.batch_size = batch_size
    /\ \E a \in fit_args : a.epochs = epochs

\* C8 (as claimed): when model.predict is called the model holds the weights
\* of an epoch with the lowest validation loss.
C8_BestWeightsAtPredict ==
    \A p \in predict_args : val_best.at # {} => p.weights \in val_best.at

\* C9 (as claimed): the count of consecutive non-improving epochs stays below
\* the patience, the callback never asks to stop, and a fit that returns has
\* run exactly `epochs` epochs.
C9_NeverReachesPatience ==
    /\ cb.wait < patience
    /\ ~cb.stop_training
    /\ FitReturned => \A a \in fit_args : epoch = a.epochs

\* C9 (amended): a fit that returns has run exactly `epochs` epochs; the
\* count stays below the patience until the last epoch ends, and it reaches
\* the patience there only when no epoch's validation loss was below the
\* initial best (every loss NaN or infinite).
C9_RunsAllEpochs ==
    /\ FitReturned => \A a \in fit_args : epoch = a.epochs /\ epoch = epochs
    /\ epoch < epochs => cb.wait < patience /\ ~cb.stop_training
    /\ cb.wait <= patience
    /\ (cb.wait >= patience \/ cb.stop_training) =>
          /\ epoch = epochs
          /\ cb.best = Num(Inf)
          /\ val_best.seen => val_best.min = Inf

C9_Witness ==
    /\ FitReturned
    /\ epoch = epochs
    /\ cb.wait = patience - 1
    /\ val_best.seen /\ val_best.min < Inf

\* C10: parameter updates read only dataset_tr, the validation metric only
\* dataset_va, no loader reads dataset_te (and no test loader exists) until
\* fit has returned, and the score is computed from dataset_te only.
C10_SplitsKeptApart ==
    /\ reads.update \subseteq {"tr"}
    /\ reads.metric \subseteq {"va"}
    /\ "te" \notin reads.early
    /\ ~FitReturned => loaders["te"] = {} /\ reads.predict = {}
    /\ \A s \in {"tr", "va"} : \A l \in loaders[s] : l.dataset # "te"
    /\ \A yp \in y_pred : yp.from = {"te"}
    /\ \A sc \in score : sc.y_true = {"te"} /\ sc.y_pred = {"te"}

C10_Witness ==
    /\ score # {}
    /\ reads.update = {"tr"}
    /\ reads.metric = {"va"}
    /\ reads.predict = {"te"}

====
